---- MODULE Spec2Model ----
(***************************************************************************)
(* Neighbour-based regression of scikit-hubness                            *)
(* (hubness/neighbors/regression.py) and the MutualProximity fit/transform *)
(* contract exercised by hubness/reduction/tests/test_mutual_proximity.py. *)
(*                                                                         *)
(* A query batch is given as the matrix of distances between each query    *)
(* row and the reference points (what the distance provider hands to the   *)
(* estimator).  Real numbers are exact rationals <<num, den>>, den > 0,    *)
(* in lowest terms; NaN is the pair <<0, 0>>.                              *)
(***************************************************************************)
EXTENDS Integers, Sequences, FiniteSets, TLC

\* ------------------------------------------------------------------ bounds
\* largest number of reference points of a fitted model
MaxN == 3
\* largest distance between a query row and a reference point
MaxDist == 2
\* largest number of distance cells (rows * reference points) of a batch
MaxCells == 4
\* target values of the reference points (those of the docstring examples)
Targets == {0, 1}

\* ------------------------------------------------------------ real numbers
NaN == <<0, 0>>

Abs(a) == IF a < 0 THEN -a ELSE a

RECURSIVE Gcd(_, _)
Gcd(a, b) == IF b = 0 THEN a ELSE Gcd(b, a % b)

\* the rational n / d (d # 0) in lowest terms with a positive denominator
Frac(n, d) ==
    LET g == Gcd(Abs(n), Abs(d))
        s == IF d < 0 THEN -1 ELSE 1
    IN  <<(s * n) \div g, (s * d) \div g>>

IsNaN(p) == p[2] = 0

RAdd(p, q) == Frac(p[1] * q[2] + q[1] * p[2], p[2] * q[2])
RMul(p, q) == Frac(p[1] * q[1], p[2] * q[2])
\* p / q; a zero divisor gives NaN (0/0) as in floating point
RDiv(p, q) == IF q[1] = 0 THEN NaN ELSE Frac(p[1] * q[2], p[2] * q[1])
RInt(n) == <<n, 1>>

RECURSIVE RSum(_)
RSum(s) == IF s = <<>> THEN RInt(0) ELSE RAdd(Head(s), RSum(Tail(s)))

\* exact square root of a perfect square
Sqrt(n) == CHOOSE r \in 0..n : r * r = n

\* the one element of a singleton set: The({e(v) : v \in {d}}) is e with
\* v bound to the value of d
The(S) == CHOOSE x \in S : TRUE

\* ---------------------------------------------------- neighbour selection
\* Order in which numpy's selection and sort place two columns of one row:
\* by distance, equal distances in the implementation's fixed order (tie).
Before(row, tie, a, b) ==
    \/ row[a] < row[b]
    \/ row[a] = row[b] /\ (IF tie = "lo" THEN a < b ELSE a > b)

\* number of columns placed before column a
Rank(row, tie, a) == Cardinality({b \in DOMAIN row : Before(row, tie, b, a)})

\* the columns of S as a sequence in increasing column order
RECURSIVE InIndexOrder(_)
InIndexOrder(S) ==
    IF S = {} THEN <<>>
    ELSE LET m == CHOOSE x \in S : \A z \in S : x <= z
         IN  <<m>> \o InIndexOrder(S \ {m})

\* the columns of a row split around the one of rank k
PartitionAt(row, tie, k) ==
    InIndexOrder({c \in DOMAIN row : Rank(row, tie, c) < k})
    \o InIndexOrder({c \in DOMAIN row : Rank(row, tie, c) = k})
    \o InIndexOrder({c \in DOMAIN row : Rank(row, tie, c) > k})

\* (a selection that clamps kth to the row instead of raising)
ArgPartitionClamped(row, tie, kth) ==
    LET n == Len(row)
        k == IF kth >= n THEN n - 1 ELSE kth
    IN  [err |-> FALSE, perm |-> PartitionAt(row, tie, k)]

\* np.argpartition(row, kth): a permutation of the columns with the kth
\* smallest at position kth, the smaller ones before it and the larger ones
\* after it, each side in no particular order (here: column order).  A kth
\* outside the row is a ValueError ("kth out of bounds").
ArgPartition(row, tie, kth) ==
    LET n == Len(row)
        k == IF kth < 0 THEN kth + n ELSE kth
    IN  IF k < 0 \/ k >= n THEN [err |-> TRUE, perm |-> <<>>]
        ELSE [err |-> FALSE, perm |-> PartitionAt(row, tie, k)]

\* np.argsort(vals): positions of vals in ascending order of value
ArgSort(vals, tie) ==
    [j \in 1..Len(vals) |->
        CHOOSE p \in 1..Len(vals) : Rank(vals, tie, p) = j - 1]

\* first n elements of s (the Python slice s[:n], n >= 0)
Take(s, n) == [j \in 1..(IF n < Len(s) THEN n ELSE Len(s)) |-> s[j]]

\* (the selected columns left in the order the partition produced)
ReduceRowIndUnsorted(row, tie, n_neighbors) ==
    LET part == ArgPartition(row, tie, n_neighbors - 1)
    IN  [err |-> part.err, ind |-> Take(part.perm, n_neighbors)]

\* (np.argmin in the place of np.argsort: every position gets the nearest)
ReduceRowIndArgmin(row, tie, n_neighbors) ==
    LET part == ArgPartition(row, tie, n_neighbors - 1)
        sel == Take(part.perm, n_neighbors)
        ord == ArgSort([j \in 1..Len(sel) |-> row[sel[j]]], tie)
    IN  [err |-> part.err, ind |-> [j \in 1..Len(sel) |-> sel[ord[1]]]]

\* One row of _kneighbors_reduce_func: the columns of the n_neighbors
\* smallest distances, ascending.  Columns are 1-based (numpy's plus one).
ReduceRowInd(row, tie, n_neighbors) ==
    The({ The({ The({ [err |-> part.err, ind |-> [j \in 1..Len(sel) |-> sel[ord[j]]]]
                    : ord \in {ArgSort([j \in 1..Len(sel) |-> row[sel[j]]], tie)} })
              : sel \in {Take(part.perm, n_neighbors)} })
        : part \in {ArgPartition(row, tie, n_neighbors - 1)} })

\* dist[sample_range, neigh_ind] of one row, square-rooted for 'euclidean'
ReduceRowDist(row, ind, effective_metric) ==
    [j \in 1..Len(ind) |->
        IF effective_metric = "euclidean" THEN Sqrt(row[ind[j]]) ELSE row[ind[j]]]

\* _kneighbors_reduce_func(dist, start, n_neighbors, return_distance) on a
\* chunk of rows; err when numpy raises.
kneighbors_reduce_func(dist, tie, n_neighbors, return_distance, effective_metric) ==
    The({ IF \E i \in 1..Len(dist) : r[i].err
          THEN [err |-> TRUE, dist |-> <<>>, ind |-> <<>>]
          ELSE [err |-> FALSE,
                dist |-> IF ~return_distance THEN <<>>
                         ELSE [i \in 1..Len(dist) |->
                                 ReduceRowDist(dist[i], r[i].ind, effective_metric)],
                ind |-> [i \in 1..Len(dist) |-> r[i].ind]]
        : r \in {[i \in 1..Len(dist) |-> ReduceRowInd(dist[i], tie, n_neighbors)]} })

\* ----------------------------------------------------------------- state
VARIABLES
    cls,          \* "knn": KNeighborsRegressor, "radius": RadiusNeighborsRegressor
    n_neighbors,  \* self.n_neighbors
    radius,       \* self.radius
    weights,      \* self.weights: "none" (None), "uniform" or "distance"
    metric,       \* self.metric (the effective metric as well)
    tie,          \* the fixed order numpy gives to equal distances
    fitted,       \* fit has been called
    _y,           \* self._y: the targets, a vector (ndim 1) or a matrix (ndim 2)
    y_ndim,       \* self._y.ndim
    fit0,         \* the estimator's attributes as fit left them
    callers,      \* the threads calling predict
    cells,        \* the largest batch (rows * reference points) a caller passes
    formats,      \* whether the callers pass sparse (TRUE) or dense (FALSE) arrays
    frame,        \* per caller: the position and locals of its predict call
    graph,        \* neigh_dist, neigh_ind of NearestNeighbors.kneighbors()
    mp,           \* the MutualProximity object and the outcome of its last call
    reduce        \* a call of _kneighbors_reduce_func: its arguments and result

vars == <<cls, n_neighbors, radius, weights, metric, tie, fitted, _y, y_ndim,
          fit0, callers, cells, formats, frame, graph, mp, reduce>>

config == <<cls, n_neighbors, radius, weights, metric, tie>>

\* the estimator as a predict call reads it
Self ==
    [cls |-> cls, n_neighbors |-> n_neighbors, radius |-> radius,
     weights |-> weights, metric |-> metric, effective_metric |-> metric,
     tie |-> tie, y |-> _y, y_ndim |-> y_ndim]

\* a predict call that has not started
Idle ==
    [pc |-> "idle", X |-> <<>>, sparse |-> FALSE, log |-> <<>>,
     neigh_dist |-> <<>>, neigh_ind |-> <<>>, w |-> [none |-> TRUE, w |-> <<>>],
     y_pred |-> <<>>, ret |-> <<>>, err |-> "", warnings |-> 0]

\* no neighbour graph, and no MutualProximity object
NoGraph == [dist |-> <<>>, ind |-> <<>>]

NoMP ==
    [pc |-> "none", method |-> "None", verbose |-> 0, fit_method |-> "",
     neigh_dist_train_ |-> <<>>, neigh_ind_train_ |-> <<>>,
     mu_train_ |-> <<>>, var_train_ |-> <<>>,
     neigh_dist |-> <<>>, neigh_ind |-> <<>>, out |-> <<>>,
     err |-> "", at |-> "", emitted |-> 0]

\* no call of _kneighbors_reduce_func under way
NoReduce ==
    [pc |-> "idle", X |-> <<>>, dist |-> <<>>, n_neighbors |-> 1,
     return_distance |-> TRUE, result |-> [err |-> FALSE, dist |-> <<>>, ind |-> <<>>]]

\* query batches for n reference points: B rows of n distances, B * n <= m
Batches(n, m) ==
    UNION {[1..B -> [1..n -> 0..MaxDist]] : B \in {b \in 1..m : b * n <= m}}

\* ----------------------------------------------------- neighbour queries
Squared(X) == [i \in 1..Len(X) |-> [j \in 1..Len(X[i]) |-> X[i][j] * X[i][j]]]

\* KNeighborsMixin.kneighbors(X) with brute-force candidates and no hubness
\* reduction: squared distances for the euclidean metric, reduced per chunk
kneighbors(self, X) ==
    kneighbors_reduce_func(
        IF self.effective_metric = "euclidean" THEN Squared(X) ELSE X,
        self.tie, self.n_neighbors, TRUE, self.effective_metric)

\* RadiusNeighborsMixin.radius_neighbors(X): per row the reference points
\* within the radius, in column order, with their distances
radius_neighbors(self, X) ==
    The({ [err |-> FALSE,
           dist |-> [i \in 1..Len(X) |-> [j \in 1..Len(ind[i]) |-> X[i][ind[i][j]]]],
           ind |-> ind]
        : ind \in {[i \in 1..Len(X) |->
                     InIndexOrder({c \in 1..Len(X[i]) : X[i][c] <= self.radius})]} })

\* _get_weights(dist, weights): None for uniform weighting; for 'distance'
\* the inverse distances, and in a row holding a zero distance weight 1 for
\* the zero-distance neighbours and 0 for the others
get_weights(dist, wcfg) ==
    IF wcfg \in {"none", "uniform"} THEN [none |-> TRUE, w |-> <<>>]
    ELSE [none |-> FALSE,
          w |-> [i \in 1..Len(dist) |->
                   IF \E j \in 1..Len(dist[i]) : dist[i][j] = 0
                   THEN [j \in 1..Len(dist[i]) |->
                           IF dist[i][j] = 0 THEN RInt(1) ELSE RInt(0)]
                   ELSE [j \in 1..Len(dist[i]) |-> Frac(1, dist[i][j])]]]

\* -------------------------------------------------------------- predict
\* _y.reshape((-1, 1)) of a vector; a matrix is used as it is
Reshape(y, ndim) == IF ndim = 1 THEN [i \in 1..Len(y) |-> <<y[i]>>] ELSE y

\* (the reshape assigned to self._y instead of the local _y)
SelfYReshapedInPlace(y, ndim) == [y |-> Reshape(y, ndim), ndim |-> 2]

\* self._y after "_y = self._y; _y = _y.reshape(...)": the attribute is
\* only read, the reshaped array is bound to the local name
SelfYAfterPredict(y, ndim) == [y |-> y, ndim |-> ndim]

\* y_pred.ravel()
RECURSIVE Ravel(_)
Ravel(m) == IF m = <<>> THEN <<>> ELSE Head(m) \o Ravel(Tail(m))

\* (a mean over one neighbour too many)
MeanOffByOne(ys) ==
    RDiv(RSum([t \in 1..Len(ys) |-> RInt(ys[t])]), RInt(Len(ys) + 1))

\* np.mean of the targets ys
Mean(ys) == RDiv(RSum([t \in 1..Len(ys) |-> RInt(ys[t])]), RInt(Len(ys)))

\* (the weights dropped from the average)
WeightedMeanUnweighted(ys, ws) == Mean(ys)

\* sum(ys * ws) / sum(ws)
WeightedMean(ys, ws) ==
    RDiv(RSum([t \in 1..Len(ys) |-> RMul(RInt(ys[t]), ws[t])]), RSum(ws))

\* the targets of output j at the selected reference points
TargetsAt(Y, ind, j) == [t \in 1..Len(ind) |-> Y[ind[t]][j]]

\* KNeighborsRegressor.predict, the prediction of query row i
KPredictRow(Y, ind, w, i) ==
    [j \in 1..Len(Y[1]) |->
        IF w.none THEN Mean(TargetsAt(Y, ind[i], j))
        ELSE WeightedMean(TargetsAt(Y, ind[i], j), w.w[i])]

\* np.full_like(_y[0], np.nan)
empty_obs(Y) == [j \in 1..Len(Y[1]) |-> NaN]

\* (a row without neighbours predicted as 0)
RPredictRowZero(Y, ind, w, i) ==
    IF Len(ind[i]) = 0 THEN [j \in 1..Len(Y[1]) |-> RInt(0)]
    ELSE KPredictRow(Y, ind, w, i)

\* RadiusNeighborsRegressor.predict, the prediction of query row i
RPredictRow(Y, ind, w, i) ==
    IF Len(ind[i]) = 0 THEN empty_obs(Y)
    ELSE [j \in 1..Len(Y[1]) |->
            IF w.none THEN Mean(TargetsAt(Y, ind[i], j))
            ELSE WeightedMean(TargetsAt(Y, ind[i], j), w.w[i])]

HasNaN(row) == \E j \in 1..Len(row) : IsNaN(row[j])

\* (a warning raised inside the loop over the rows)
RECURSIVE RadiusEventsPerRow(_)
RadiusEventsPerRow(pred) ==
    IF pred = <<>> THEN <<>>
    ELSE <<"row">> \o (IF HasNaN(Head(pred)) THEN <<"warn">> ELSE <<>>)
         \o RadiusEventsPerRow(Tail(pred))

\* what RadiusNeighborsRegressor.predict does after the query, in order:
\* every row of y_pred is computed, then np.max(np.isnan(y_pred)) decides
\* on the one warnings.warn
RadiusEvents(pred) ==
    [i \in 1..Len(pred) |-> "row"]
    \o (IF \E i \in 1..Len(pred) : HasNaN(pred[i]) THEN <<"warn">> ELSE <<>>)

CountWarn(log) == Cardinality({k \in 1..Len(log) : log[k] = "warn"})

\* KNeighborsRegressor.predict up to check_array
CheckK(self, f) ==
    IF f.sparse /\ self.metric = "precomputed"
    THEN [f EXCEPT !.pc = "raised", !.err = "ValueError"]
    ELSE [f EXCEPT !.pc = "checked"]

\* RadiusNeighborsRegressor.predict up to check_array (csr is accepted)
CheckR(self, f) == [f EXCEPT !.pc = "checked"]

\* neigh_dist, neigh_ind = self.kneighbors(X); weights = _get_weights(...)
QueryK(self, f) ==
    The({ IF r.err
          THEN [f EXCEPT !.pc = "raised", !.err = "ValueError",
                         !.log = f.log \o <<"query">>]
          ELSE [f EXCEPT !.pc = "queried", !.log = f.log \o <<"query">>,
                         !.neigh_dist = r.dist, !.neigh_ind = r.ind,
                         !.w = get_weights(r.dist, self.weights)]
        : r \in {kneighbors(self, f.X)} })

\* neigh_dist, neigh_ind = self.radius_neighbors(X); weights = _get_weights(...)
QueryR(self, f) ==
    The({ [f EXCEPT !.pc = "queried", !.log = f.log \o <<"query">>,
                    !.neigh_dist = r.dist, !.neigh_ind = r.ind,
                    !.w = get_weights(r.dist, self.weights)]
        : r \in {radius_neighbors(self, f.X)} })

\* KNeighborsRegressor.predict from "_y = self._y" to the return; after is
\* self._y as the reshape left it
ComputeK(self, after, f) ==
    The({ [f EXCEPT !.pc = "done", !.y_pred = pred,
                    !.log = f.log \o [i \in 1..Len(pred) |-> "row"],
                    !.ret = IF after.ndim = 1 THEN Ravel(pred) ELSE pred]
        : pred \in { The({ [i \in 1..Len(f.X) |-> KPredictRow(Y, f.neigh_ind, f.w, i)]
                          : Y \in {Reshape(self.y, self.y_ndim)} }) } })

\* RadiusNeighborsRegressor.predict from "_y = self._y" to the return
ComputeR(self, after, f) ==
    The({ The({ [f EXCEPT !.pc = "done", !.y_pred = pred,
                          !.log = f.log \o ev, !.warnings = CountWarn(ev),
                          !.ret = IF after.ndim = 1 THEN Ravel(pred) ELSE pred]
              : ev \in {RadiusEvents(pred)} })
        : pred \in { The({ [i \in 1..Len(f.X) |-> RPredictRow(Y, f.neigh_ind, f.w, i)]
                          : Y \in {Reshape(self.y, self.y_ndim)} }) } })

Start(X, sparse) == [Idle EXCEPT !.pc = "start", !.X = X, !.sparse = sparse]

\* a whole predict call of either estimator
RunPredict(self, X, sparse) ==
    The({ The({ IF f2.pc = "raised" THEN f2
                ELSE IF self.cls = "knn"
                THEN ComputeK(self, SelfYAfterPredict(self.y, self.y_ndim), f2)
                ELSE ComputeR(self, SelfYAfterPredict(self.y, self.y_ndim), f2)
              : f2 \in { IF f1.pc = "raised" THEN f1
                         ELSE IF self.cls = "knn" THEN QueryK(self, f1)
                         ELSE QueryR(self, f1) } })
        : f1 \in { IF self.cls = "knn" THEN CheckK(self, Start(X, sparse))
                   ELSE CheckR(self, Start(X, sparse)) } })

\* ---------------------------------------------------------------- actions
\* the estimator as its constructor leaves it, for the classes C, weight
\* settings W and metrics M, with k callers passing batches of up to m cells
\* in the array formats F
Constructed(C, W, M, k, m, F) ==
    /\ cls \in C
    /\ n_neighbors \in 1..MaxN
    /\ radius \in 1..MaxDist
    /\ (cls = "knn" => radius = 1)
    /\ (cls = "radius" => n_neighbors = 1)
    /\ weights \in W
    /\ metric \in M
    /\ tie \in {"lo", "hi"}
    /\ fitted = FALSE
    /\ _y = <<>>
    /\ y_ndim = 1
    /\ fit0 = [y |-> <<>>, ndim |-> 1]
    /\ callers = 1..k
    /\ cells = m
    /\ formats = F
    /\ frame = [c \in 1..2 |-> Idle]
    /\ graph = NoGraph
    /\ mp = NoMP
    /\ reduce = NoReduce

Init ==
    Constructed({"knn", "radius"}, {"uniform", "distance"},
                {"euclidean", "precomputed"}, 1, MaxCells, BOOLEAN)

\* fit(X, y): the targets are stored; y is a vector, or a two-column matrix
Fit ==
    /\ \A c \in callers : frame[c].pc = "idle"
    /\ \E n \in 1..MaxN, nd \in {1, 2} : \E y \in [1..n -> Targets] :
         /\ n <= cells
         /\ _y' = IF nd = 1 THEN y ELSE [i \in 1..n |-> <<y[i], 1 - y[i]>>]
         /\ y_ndim' = nd
         /\ fit0' = [y |-> _y', ndim |-> nd]
    /\ fitted' = TRUE
    /\ frame' = [c \in 1..2 |-> Idle]
    /\ UNCHANGED <<config, callers, cells, formats, graph, mp, reduce>>

Predict(c, kind) ==
    /\ fitted /\ cls = kind
    /\ Cardinality(callers) = 1
    /\ frame[c].pc = "idle"
    /\ \E X \in Batches(Len(_y), cells), sparse \in formats :
         \E f \in {RunPredict(Self, X, sparse)} :
           \E after \in {IF f.pc = "done" THEN SelfYAfterPredict(_y, y_ndim)
                          ELSE [y |-> _y, ndim |-> y_ndim]} :
             /\ frame' = [frame EXCEPT ![c] = f]
             /\ _y' = after.y
             /\ y_ndim' = after.ndim
    /\ UNCHANGED <<config, fitted, fit0, callers, cells, formats, graph, mp, reduce>>

\* KNeighborsRegressor.predict(X)
PredictK == \E c \in callers : Predict(c, "knn")

\* RadiusNeighborsRegressor.predict(X)
PredictR == \E c \in callers : Predict(c, "radius")

\* the caller takes the result (or the exception) of its call
Return ==
    \E c \in callers :
        /\ frame[c].pc \in {"done", "raised"}
        /\ frame' = [frame EXCEPT ![c] = Idle]
        /\ UNCHANGED <<config, fitted, _y, y_ndim, fit0, callers, cells, formats, graph, mp, reduce>>

Next == Fit \/ PredictK \/ PredictR \/ Return

Spec == Init /\ [][Next]_vars

\* KNeighborsRegressor alone
NextK == Fit \/ PredictK \/ Return

\* RadiusNeighborsRegressor alone
NextR == Fit \/ PredictR \/ Return

\* KNeighborsRegressor(weights='uniform') and KNeighborsRegressor(weights=None)
InitKUniform ==
    Constructed({"knn"}, {"none", "uniform"}, {"euclidean", "precomputed"},
                1, MaxCells, {FALSE})

SpecKUniform == InitKUniform /\ [][NextK]_vars

\* RadiusNeighborsRegressor, dense queries
InitR ==
    Constructed({"radius"}, {"uniform", "distance"}, {"euclidean", "precomputed"},
                1, MaxCells, {FALSE})

SpecR == InitR /\ [][NextR]_vars

\* both estimators with weights='distance', dense queries
InitDistance ==
    Constructed({"knn", "radius"}, {"distance"}, {"euclidean", "precomputed"},
                1, MaxCells, {FALSE})

SpecDistance == InitDistance /\ [][Next]_vars

\* both estimators with weights='uniform', dense queries
InitUniform ==
    Constructed({"knn", "radius"}, {"uniform"}, {"euclidean", "precomputed"},
                1, MaxCells, {FALSE})

SpecUniform == InitUniform /\ [][Next]_vars

\* KNeighborsRegressor, dense queries
InitK ==
    Constructed({"knn"}, {"uniform", "distance"}, {"euclidean", "precomputed"},
                1, MaxCells, {FALSE})

SpecK == InitK /\ [][NextK]_vars

\* ------------------------------------------- predict calls of two threads
\* The steps of a predict call, one statement group at a time, for callers
\* that run concurrently on one fitted estimator.
Call(c) ==
    /\ fitted /\ frame[c].pc = "idle"
    /\ \E X \in Batches(Len(_y), cells), sparse \in formats :
         frame' = [frame EXCEPT ![c] = Start(X, sparse)]
    /\ UNCHANGED <<config, fitted, _y, y_ndim, fit0, callers, cells, formats, graph, mp, reduce>>

Check(c) ==
    /\ frame[c].pc = "start"
    /\ frame' = [frame EXCEPT ![c] = IF cls = "knn" THEN CheckK(Self, frame[c])
                                     ELSE CheckR(Self, frame[c])]
    /\ UNCHANGED <<config, fitted, _y, y_ndim, fit0, callers, cells, formats, graph, mp, reduce>>

Query(c) ==
    /\ frame[c].pc = "checked"
    /\ frame' = [frame EXCEPT ![c] = IF cls = "knn" THEN QueryK(Self, frame[c])
                                     ELSE QueryR(Self, frame[c])]
    /\ UNCHANGED <<config, fitted, _y, y_ndim, fit0, callers, cells, formats, graph, mp, reduce>>

Compute(c) ==
    /\ frame[c].pc = "queried"
    /\ \E after \in {SelfYAfterPredict(_y, y_ndim)} :
         /\ frame' = [frame EXCEPT ![c] =
                        IF cls = "knn" THEN ComputeK(Self, after, frame[c])
                        ELSE ComputeR(Self, after, frame[c])]
         /\ _y' = after.y
         /\ y_ndim' = after.ndim
    /\ UNCHANGED <<config, fitted, fit0, callers, cells, formats, graph, mp, reduce>>

CallStep == \E c \in callers : Call(c)
CheckStep == \E c \in callers : Check(c)
QueryStep == \E c \in callers : Query(c)
ComputeStep == \E c \in callers : Compute(c)

NextConc == Fit \/ CallStep \/ CheckStep \/ QueryStep \/ ComputeStep \/ Return

\* two threads passing batches of up to two cells to an estimator with
\* weights='distance' and the euclidean metric
InitConc ==
    Constructed({"knn", "radius"}, {"distance"}, {"euclidean"}, 2, 2, {FALSE})

SpecConc == InitConc /\ [][NextConc]_vars

\* ------------------------------------------------------ Mutual Proximity
\* reduction/tests/test_mutual_proximity.py: the methods the tests run, the
\* methods MutualProximity accepts, and the methods it is constructed with
\* (None is written "None")
METHODS == {"normal", "exact"}

\* (an allowed set that lets 'invalid' through)
ALLOWED_METHODS_WithInvalid == {"exact", "empiric", "normal", "gaussi", "invalid"}

ALLOWED_METHODS == {"exact", "empiric", "normal", "gaussi"}

Methods == METHODS \cup ALLOWED_METHODS \cup {"invalid", "None"}

\* symmetric distances 1..MaxDist between n distinct points, zero on the
\* diagonal
SymmetricDistances(n) ==
    { [i \in 1..n |-> [j \in 1..n |->
          IF i = j THEN 0 ELSE IF i < j THEN d[<<i, j>>] ELSE d[<<j, i>>]]]
      : d \in [{p \in (1..n) \X (1..n) : p[1] < p[2]} -> 1..MaxDist] }

\* NearestNeighbors(n_neighbors=k).fit(X).kneighbors(): for each point its k
\* nearest other points, ascending by distance
kneighbors_graph(D, k, t) ==
    The({ [dist |-> [i \in DOMAIN D |-> rows[i].dist],
           ind  |-> [i \in DOMAIN D |-> rows[i].ind]]
        : rows \in {[i \in DOMAIN D |->
            The({ The({ [dist |-> [j \in DOMAIN order |-> D[i][cand[order[j]]]],
                         ind  |-> [j \in DOMAIN order |-> cand[order[j]]]]
                      : order \in {Take(ArgSort([j \in DOMAIN cand |-> D[i][cand[j]]], t), k)} })
                : cand \in {InIndexOrder(DOMAIN D \ {i})} })]} })

\* mean and variance (ddof = 0) of a row of distances
RNeg(p) == RMul(RInt(-1), p)
RMean(row) == RDiv(RSum([j \in DOMAIN row |-> RInt(row[j])]), RInt(Len(row)))
RVar(row) ==
    RAdd(RDiv(RSum([j \in DOMAIN row |-> RInt(row[j] * row[j])]), RInt(Len(row))),
         RNeg(RMul(RMean(row), RMean(row))))

\* MutualProximity.fit(neigh_dist, neigh_ind): the empirical methods keep the
\* candidate lists, the Gaussian methods a mean and a variance per reference
\* point; any other method is a ValueError
MutualProximity_fit(self, neigh_dist, neigh_ind) ==
    IF self.method \notin ALLOWED_METHODS
    THEN [self EXCEPT !.pc = "raised", !.err = "ValueError", !.at = "fit"]
    ELSE IF self.method \in {"exact", "empiric"}
    THEN [self EXCEPT !.pc = "fitted", !.fit_method = "empiric",
                      !.neigh_dist_train_ = neigh_dist,
                      !.neigh_ind_train_ = neigh_ind]
    ELSE [self EXCEPT !.pc = "fitted", !.fit_method = "normal",
                      !.mu_train_ = [i \in DOMAIN neigh_dist |-> RMean(neigh_dist[i])],
                      !.var_train_ = [i \in DOMAIN neigh_dist |-> RVar(neigh_dist[i])]]

\* the lower clamp of a survival probability
Epsilon == <<1, 1000>>
Clamp(p) == IF p[1] = 0 THEN Epsilon ELSE p

\* P(D > d) for the empirical distribution of a candidate list
Survival(row, d) == Frac(Cardinality({j \in DOMAIN row : row[j] > d}), Len(row))

\* the standard score of d as <<sign, z^2>>, which determines the Gaussian
\* survival probability sf(z); a zero variance gives NaN
ZScore(d, mu, var) ==
    IF var[1] = 0 THEN <<0, NaN>>
    ELSE The({ <<IF diff[1] < 0 THEN -1 ELSE IF diff[1] = 0 THEN 0 ELSE 1,
                 RDiv(RMul(diff, diff), var)>>
             : diff \in {RAdd(RInt(d), RNeg(mu))} })

\* 1 - P_x * P_y for the candidates of query row i
EmpiricRow(self, dist, ind, i) ==
    [j \in DOMAIN dist[i] |->
        RAdd(RInt(1),
             RNeg(RMul(Clamp(Survival(dist[i], dist[i][j])),
                       Clamp(Survival(self.neigh_dist_train_[ind[i][j]],
                                      dist[i][j])))))]

\* 1 - sf(z_x) * sf(z_y) for the candidates of query row i, kept as the
\* two standard scores
NormalRow(self, dist, ind, i) ==
    [j \in DOMAIN dist[i] |->
        [one_minus_sf |-> <<ZScore(dist[i][j], RMean(dist[i]), RVar(dist[i])),
                            ZScore(dist[i][j], self.mu_train_[ind[i][j]],
                                   self.var_train_[ind[i][j]])>>]]

\* (secondary distances for all but the last candidate of a row)
SecondaryRowShort(self, dist, ind, i) ==
    Take(IF self.fit_method = "empiric" THEN EmpiricRow(self, dist, ind, i)
         ELSE NormalRow(self, dist, ind, i), Len(dist[i]) - 1)

SecondaryRow(self, dist, ind, i) ==
    IF self.fit_method = "empiric" THEN EmpiricRow(self, dist, ind, i)
    ELSE NormalRow(self, dist, ind, i)

\* MutualProximity.transform(neigh_dist, neigh_ind): the empirical methods
\* need as many candidates per row as fit recorded; verbose reports one line
\* of progress per row
MutualProximity_transform(self, neigh_dist, neigh_ind) ==
    IF /\ self.fit_method = "empiric"
       /\ \E i \in DOMAIN neigh_dist :
             Len(neigh_dist[i]) # Len(self.neigh_dist_train_[1])
    THEN [self EXCEPT !.pc = "raised", !.err = "ValueError", !.at = "transform",
                      !.neigh_dist = neigh_dist, !.neigh_ind = neigh_ind]
    ELSE [self EXCEPT !.pc = "transformed",
                      !.neigh_dist = neigh_dist, !.neigh_ind = neigh_ind,
                      !.out = [i \in DOMAIN neigh_dist |->
                                  SecondaryRow(self, neigh_dist, neigh_ind, i)],
                      !.emitted = IF self.verbose > 0 THEN Len(neigh_dist) ELSE 0]

\* the matrices of g without their last column
Narrowed(g) ==
    [dist |-> [i \in DOMAIN g.dist |-> Take(g.dist[i], Len(g.dist[i]) - 1)],
     ind  |-> [i \in DOMAIN g.ind |-> Take(g.ind[i], Len(g.ind[i]) - 1)]]

estimator == <<config, fitted, _y, y_ndim, fit0, callers, cells, formats, frame>>

\* mp = MutualProximity(method=method, verbose=verbose)
MPConstruct ==
    /\ mp.pc = "none"
    /\ \E method \in Methods, verbose \in {0, 1} :
         mp' = [NoMP EXCEPT !.pc = "constructed", !.method = method,
                            !.verbose = verbose]
    /\ UNCHANGED <<estimator, graph, reduce>>

\* mp.fit(neigh_dist, neigh_ind)
MPFit ==
    /\ mp.pc = "constructed"
    /\ mp' = MutualProximity_fit(mp, graph.dist, graph.ind)
    /\ UNCHANGED <<estimator, graph, reduce>>

\* mp.transform(...) on the matrices fit was given, or on narrower ones
MPTransform ==
    /\ mp.pc = "fitted"
    /\ \E q \in {graph} \cup {Narrowed(g) : g \in {h \in {graph} : Len(h.dist[1]) > 1}} :
         mp' = MutualProximity_transform(mp, q.dist, q.ind)
    /\ UNCHANGED <<estimator, graph, reduce>>

NextMP == MPConstruct \/ MPFit \/ MPTransform

\* the tests' set-up: the neighbour graph of a small dataset
InitMP ==
    /\ cls = "knn" /\ radius = 1 /\ weights = "uniform" /\ metric = "euclidean"
    /\ n_neighbors \in 1..MaxN
    /\ tie \in {"lo", "hi"}
    /\ fitted = FALSE /\ _y = <<>> /\ y_ndim = 1
    /\ fit0 = [y |-> <<>>, ndim |-> 1]
    /\ callers = 1..1 /\ cells = MaxCells /\ formats = {FALSE}
    /\ frame = [c \in 1..2 |-> Idle]
    /\ \E n \in 2..MaxN : \E D \in SymmetricDistances(n) :
         /\ n_neighbors < n
         /\ graph = kneighbors_graph(D, n_neighbors, tie)
    /\ mp = NoMP
    /\ reduce = NoReduce

SpecMP == InitMP /\ [][NextMP]_vars

\* ------------------------------------- _kneighbors_reduce_func on chunks
\* pairwise_distances_chunked calls self._kneighbors_reduce_func(dist, start,
\* n_neighbors, return_distance) on a chunk of rows: the distances X of the
\* chunk's query rows to the reference points, squared for 'euclidean'
ReduceCall ==
    /\ reduce.pc = "idle"
    /\ \E n \in 1..MaxN, k \in 1..MaxN, return_distance \in BOOLEAN :
         \E X \in Batches(n, cells) :
           \E dist \in {IF metric = "euclidean" THEN Squared(X) ELSE X} :
             \E result \in {kneighbors_reduce_func(dist, tie, k, return_distance,
                                                   Self.effective_metric)} :
               reduce' = [pc |-> IF result.err THEN "raised" ELSE "done",
                          X |-> X, dist |-> dist, n_neighbors |-> k,
                          return_distance |-> return_distance,
                          result |-> result]
    /\ UNCHANGED <<estimator, graph, mp>>

\* the caller takes the chunk's result (or the exception)
ReduceReturn ==
    /\ reduce.pc \in {"done", "raised"}
    /\ reduce' = NoReduce
    /\ UNCHANGED <<estimator, graph, mp>>

NextReduce == ReduceCall \/ ReduceReturn

InitReduce ==
    Constructed({"knn"}, {"uniform"}, {"euclidean", "precomputed"},
                1, MaxCells, {FALSE})

SpecReduce == InitReduce /\ [][NextReduce]_vars

\* ---------------------------------------------------------------- claims
RECURSIVE IntSum(_)
IntSum(s) == IF s = <<>> THEN 0 ELSE Head(s) + IntSum(Tail(s))

\* the targets of output j of the fitted model at the reference points ind
FittedTargets(ind, j) ==
    [t \in 1..Len(ind) |-> IF y_ndim = 1 THEN _y[ind[t]] ELSE _y[ind[t]][j]]

NOut == IF y_ndim = 1 THEN 1 ELSE Len(_y[1])

\* the rational p equals a / b (b > 0)
Equals(p, a, b) == p[2] > 0 /\ p[1] * b = a * p[2]

\* what predict returned for row i and output j
Returned(f, i, j) == IF y_ndim = 1 THEN f.ret[i] ELSE f.ret[i][j]

\* C1: with weights='uniform' (or None) KNeighborsRegressor.predict returns,
\* for every query row and every output, the arithmetic mean of the targets
\* at the n_neighbors indices kneighbors returned for that row.
C1_UniformMean ==
    \A c \in callers :
        (frame[c].pc = "done" /\ cls = "knn" /\ weights \in {"none", "uniform"}) =>
            /\ frame[c].neigh_ind = kneighbors(Self, frame[c].X).ind
            /\ Len(frame[c].ret) = Len(frame[c].X)
            /\ \A i \in 1..Len(frame[c].X) :
                 /\ Len(frame[c].neigh_ind[i]) = n_neighbors
                 /\ \A j \in 1..NOut :
                      Equals(Returned(frame[c], i, j),
                             IntSum(FittedTargets(frame[c].neigh_ind[i], j)),
                             n_neighbors)

\* two nearest neighbours with targets 0 and 1 give the prediction 1/2
C1_Witness ==
    \E c \in callers :
        /\ frame[c].pc = "done" /\ cls = "knn" /\ weights = "uniform"
        /\ n_neighbors = 2 /\ y_ndim = 1 /\ Len(_y) = 3
        /\ frame[c].X = <<<<1, 1, 2>>>>
        /\ {_y[frame[c].neigh_ind[1][t]] : t \in 1..2} = {0, 1}
        /\ frame[c].ret = <<<<1, 2>>>>

\* the reference points within the radius of a query row, in column order
InRadius(row) == InIndexOrder({c \in 1..Len(row) : row[c] <= radius})

RECURSIVE IntProd(_)
IntProd(s) == IF s = <<>> THEN 1 ELSE Head(s) * IntProd(Tail(s))

\* p is the mean of the targets of output j at the reference points ind of
\* a query row, weighted as the estimator is configured: equally, or by the
\* inverse of the distance (only the zero-distance points when there are any)
IsWeightedMean(p, row, ind, j) ==
    LET d == [t \in 1..Len(ind) |-> row[ind[t]]]
        zero == InIndexOrder({c \in {ind[t] : t \in 1..Len(ind)} : row[c] = 0})
        L == IntProd(d)
        ys == FittedTargets(ind, j)
    IN  IF weights \in {"none", "uniform"}
        THEN Equals(p, IntSum(ys), Len(ind))
        ELSE IF zero # <<>>
        THEN Equals(p, IntSum(FittedTargets(zero, j)), Len(zero))
        ELSE Equals(p, IntSum([t \in 1..Len(ind) |-> ys[t] * (L \div d[t])]),
                       IntSum([t \in 1..Len(ind) |-> L \div d[t]]))

ZeroNeighbours(f, i) ==
    InIndexOrder({f.neigh_ind[i][t] :
                    t \in {u \in 1..Len(f.neigh_ind[i]) : f.neigh_dist[i][u] = 0}})

C5_SparsePrecomputedRejected ==
    \A c \in callers :
        (frame[c].pc # "idle" /\ frame[c].sparse /\ metric = "precomputed") =>
            /\ frame[c].pc = "raised"
            /\ frame[c].err = "ValueError"
            /\ frame[c].log = <<>>
            /\ frame[c].y_pred = <<>> /\ frame[c].ret = <<>>

\* C6: a MutualProximity object whose method is none of 'exact', 'empiric',
\* 'normal', 'gaussi' (None included) is constructed without error, its fit
\* raises ValueError for every neighbour graph, and it is never fitted or
\* transformed.
C6_InvalidMethodRaisesAtFit ==
    (mp.pc # "none" /\ mp.method \notin {"exact", "empiric", "normal", "gaussi"}) =>
        /\ mp.pc \in {"constructed", "raised"}
        /\ mp.pc = "constructed" => mp.err = ""
        /\ mp.pc = "raised" => (mp.err = "ValueError" /\ mp.at = "fit")
        /\ mp.out = <<>> /\ mp.fit_method = ""

\* fit has raised for method=None on the graph of three points
C6_Witness ==
    /\ mp.pc = "raised" /\ mp.method = "None" /\ mp.at = "fit"
    /\ Len(graph.dist) = 3 /\ n_neighbors = 2

\* C7: a k-neighbour query whose distance rows are narrower than
\* n_neighbors fails as a whole, and no call returns rows of fewer than
\* n_neighbors neighbours.
C7_InsufficientDataRaises ==
    \A c \in callers :
        (cls = "knn" /\ frame[c].pc # "idle") =>
            /\ (\E i \in 1..Len(frame[c].X) : Len(frame[c].X[i]) < n_neighbors) =>
                  /\ frame[c].pc = "raised" /\ frame[c].err = "ValueError"
                  /\ frame[c].neigh_ind = <<>> /\ frame[c].y_pred = <<>>
                  /\ frame[c].ret = <<>>
            /\ frame[c].pc = "done" =>
                  \A i \in 1..Len(frame[c].X) :
                      /\ Len(frame[c].neigh_ind[i]) = n_neighbors
                      /\ Len(frame[c].neigh_dist[i]) = n_neighbors

\* two reference points, three neighbours requested
C7_Witness ==
    \E c \in callers :
        /\ cls = "knn" /\ n_neighbors = 3 /\ Len(_y) = 2
        /\ Len(frame[c].X) = 2
        /\ frame[c].pc = "raised" /\ frame[c].log = <<"query">>

\* C8: every index a neighbour query returns is one of the N reference
\* points ([0, N), here 1..N), every returned distance is non-negative, and
\* the indices of one row are pairwise distinct.
C8_IndicesInRange ==
    \A c \in callers :
        frame[c].pc = "done" =>
            \A i \in 1..Len(frame[c].X) :
                /\ Len(frame[c].neigh_ind[i]) = Len(frame[c].neigh_dist[i])
                /\ \A t \in 1..Len(frame[c].neigh_ind[i]) :
                     /\ frame[c].neigh_ind[i][t] \in 1..Len(_y)
                     /\ frame[c].neigh_dist[i][t] >= 0
                     /\ \A u \in 1..Len(frame[c].neigh_ind[i]) :
                          u # t => frame[c].neigh_ind[i][u] # frame[c].neigh_ind[i][t]

\* a k-neighbour query that returns two of three reference points at equal
\* distance, and a radius query that returns several
C8_Witness ==
    \E c \in callers :
        /\ frame[c].pc = "done"
        /\ Len(_y) = 3
        /\ frame[c].X = <<<<1, 1, 1>>>>
        /\ Len(frame[c].neigh_ind[1]) = 2

\* the shape of a matrix: its number of rows and the length of each row
Shape(m) == [i \in DOMAIN m |-> Len(m[i])]

\* C9: with method 'normal' or 'exact' and verbose 0 or 1, fit on a
\* neighbour graph does not raise, and transform on the same matrices does
\* not raise and returns a matrix of the shape of the distance matrix.
C9_RunsWithSameShape ==
    (mp.pc # "none" /\ mp.method \in {"normal", "exact"} /\ mp.verbose \in {0, 1}) =>
        /\ mp.pc = "raised" =>
              (mp.at = "transform" /\ mp.neigh_dist # graph.dist)
        /\ (mp.pc = "transformed" /\ mp.neigh_dist = graph.dist
                                  /\ mp.neigh_ind = graph.ind) =>
              Shape(mp.out) = Shape(graph.dist)

\* transform has returned for method 'exact', verbose 1, on the graph of
\* three points with two neighbours each that fit was given
C9_Witness ==
    /\ mp.pc = "transformed" /\ mp.method = "exact" /\ mp.verbose = 1
    /\ mp.neigh_dist = graph.dist /\ mp.neigh_ind = graph.ind
    /\ Len(graph.dist) = 3 /\ n_neighbors = 2
    /\ Shape(mp.out) = <<2, 2, 2>>
    /\ mp.emitted = 3

\* the estimator a call run on its own right after fit would read
SelfAtFit == [Self EXCEPT !.y = fit0.y, !.y_ndim = fit0.ndim]

\* C10: predict calls, in sequence or interleaved, leave the fitted
\* estimator as fit left it, and each call ends as it would when run alone.
C10_PredictReadsOnly ==
    /\ fitted => (y_ndim = fit0.ndim /\ _y = fit0.y)
    /\ \A c \in callers :
         frame[c].pc \in {"done", "raised"} =>
             frame[c] = RunPredict(SelfAtFit, frame[c].X, frame[c].sparse)

\* one call has returned its prediction while the other is between its
\* neighbour query and its prediction
C10_Witness ==
    /\ frame[1].pc = "done" /\ frame[2].pc = "queried"
    /\ frame[1].X # frame[2].X
    /\ frame[1].ret # <<>>
    /\ y_ndim = 1 /\ Len(_y) = 2

\* C11: a call of _kneighbors_reduce_func with 1 <= n_neighbors <= row width
\* returns, and per row gives n_neighbors distinct columns, none of them
\* farther than a column left out, ascending by distance; a returned
\* distance is the distance of the column at the same position, and with
\* return_distance=False the same columns come without distances.
C11_NearestSortedAligned ==
    (/\ reduce.pc # "idle"
     /\ \A i \in DOMAIN reduce.dist : reduce.n_neighbors <= Len(reduce.dist[i])) =>
        /\ reduce.pc = "done"
        /\ Len(reduce.result.ind) = Len(reduce.dist)
        /\ \A i \in DOMAIN reduce.dist :
             /\ Len(reduce.result.ind[i]) = reduce.n_neighbors
             /\ \A j \in 1..reduce.n_neighbors :
                  /\ reduce.result.ind[i][j] \in DOMAIN reduce.dist[i]
                  /\ \A u \in 1..reduce.n_neighbors :
                       u # j => reduce.result.ind[i][u] # reduce.result.ind[i][j]
                  /\ \A c \in DOMAIN reduce.dist[i] :
                       (\A u \in 1..reduce.n_neighbors : reduce.result.ind[i][u] # c)
                           => reduce.dist[i][c] >= reduce.dist[i][reduce.result.ind[i][j]]
                  /\ j > 1 => reduce.dist[i][reduce.result.ind[i][j - 1]]
                                  <= reduce.dist[i][reduce.result.ind[i][j]]
        /\ reduce.return_distance =>
             /\ Len(reduce.result.dist) = Len(reduce.dist)
             /\ \A i \in DOMAIN reduce.dist :
                  /\ Len(reduce.result.dist[i]) = reduce.n_neighbors
                  /\ \A j \in 1..reduce.n_neighbors :
                       reduce.result.dist[i][j] = reduce.X[i][reduce.result.ind[i][j]]
        /\ ~reduce.return_distance =>
             /\ reduce.result.dist = <<>>
             /\ reduce.result.ind =
                  kneighbors_reduce_func(reduce.dist, tie, reduce.n_neighbors, TRUE,
                                         Self.effective_metric).ind

\* a euclidean chunk of one row whose three columns all are selected and
\* come back reordered, with their distances
C11_Witness ==
    /\ reduce.pc = "done" /\ metric = "euclidean" /\ reduce.return_distance
    /\ reduce.n_neighbors = 3
    /\ reduce.X = <<<<1, 0, 2>>>> /\ reduce.dist = <<<<1, 0, 4>>>>
    /\ reduce.result.ind = <<<<2, 1, 3>>>>
    /\ reduce.result.dist = <<<<0, 1, 2>>>>
====
